---- MODULE Spec2Model ----
(***************************************************************************)
(* TidyX, tidyX/TextPreprocessor.py: the bag-of-lemmas clustering loop     *)
(* TextPreprocessor.create_bol and the repetition collapser                *)
(* TextPreprocessor.remove_repetitions.                                    *)
(*                                                                         *)
(* A string is a sequence of one-character strings.  One behaviour is one  *)
(* call: either create_bol(lemmas, verbose), stepped one loop iteration at *)
(* a time, or remove_repetitions(string, exceptions).                      *)
(***************************************************************************)
EXTENDS Integers, Sequences, FiniteSets, TLC

VARIABLES
    call,          \* which static method this behaviour calls
    pc,            \* position of the call: "while", "break", "call", "done"
    input,         \* create_bol: the lemmas argument as passed by the caller
    verbose,       \* create_bol: the verbose argument
    lemmas,        \* create_bol: the local array lemmas (the working set)
    origin,        \* history: origin[i] is the input position of lemmas[i]
    recorded,      \* history: recorded[k] is the input position of row k of bow_df
    bow_df,        \* create_bol: the accumulating DataFrame, a sequence of rows
    iterator,      \* create_bol: the local iterator
    raised,        \* create_bol: TRUE once the except clause has run
    stdout,        \* create_bol: the lines printed, in order
    returned,      \* create_bol: the DataFrame handed back to the caller
    string,        \* remove_repetitions: the string argument
    exceptions,    \* remove_repetitions: the exceptions argument
    result         \* remove_repetitions: the returned string

vars == <<call, pc, input, verbose, lemmas, origin, recorded, bow_df, iterator, raised,
          stdout, returned, string, exceptions, result>>

bolVars == <<input, verbose, lemmas, origin, recorded, bow_df, iterator, raised, stdout, returned>>
repVars == <<string, exceptions, result>>

----------------------------------------------------------------------------
(* Bounds of the model                                                     *)

MaxLemmas == 3      \* longest input enumerated element by element
MaxBase   == 2      \* longest pattern tiled into a long input
MaxTiles  == 2      \* long inputs have 20 * k lemmas, k in 1..MaxTiles
MaxText   == 4      \* longest string given to remove_repetitions
MaxExc    == 2      \* longest exceptions list

----------------------------------------------------------------------------
(* Generic helpers                                                         *)

Range(s) == {s[i] : i \in 1..Len(s)}

Max(a, b) == IF a >= b THEN a ELSE b

SeqsUpTo(S, n) == UNION {[1..k -> S] : k \in 0..n}

Indices(s) == [i \in 1..Len(s) |-> i]

\* F(v), with v evaluated once: TLC evaluates a LET definition again at every
\* use when it evaluates ENABLED, a bound variable never
Let(v, F(_)) == CHOOSE y \in {F(u) : u \in {v}} : TRUE

\* Python's round(): round n/d (d > 0, n >= 0) to the nearest integer, ties to even
RoundHalfEven(n, d) ==
    LET q == n \div d
        r == n % d
    IN  IF 2 * r < d THEN q
        ELSE IF 2 * r > d THEN q + 1
        ELSE IF q % 2 = 0 THEN q ELSE q + 1

----------------------------------------------------------------------------
(* fuzz.ratio: 100 * (1 - indel_distance / (len(a) + len(b))), rounded     *)

RECURSIVE FillRow(_, _, _, _)
\* one row of the longest-common-subsequence table; cur[j+1] is column j
FillRow(x, b, prev, cur) ==
    LET j == Len(cur)
    IN  IF j > Len(b) THEN cur
        ELSE FillRow(x, b, prev,
                     Append(cur, IF x = b[j] THEN prev[j] + 1
                                 ELSE Max(prev[j + 1], cur[j])))

RECURSIVE LcsRows(_, _, _, _)
LcsRows(a, b, i, prev) ==
    IF i > Len(a) THEN prev[Len(b) + 1]
    ELSE LcsRows(a, b, i + 1, FillRow(a[i], b, prev, <<0>>))

Lcs(a, b) == LcsRows(a, b, 1, [j \in 1..(Len(b) + 1) |-> 0])

IndelDistance(a, b) == Len(a) + Len(b) - 2 * Lcs(a, b)

FuzzRatio(a, b) ==
    LET lensum == Len(a) + Len(b)
    IN  IF lensum = 0 THEN 100
        ELSE RoundHalfEven(100 * (lensum - IndelDistance(a, b)), lensum)

\* The lemmas of the model

Chars(c, n) == [i \in 1..n |-> c]

ca     == <<"c", "a">>
cas    == <<"c", "a", "s">>
casa   == <<"c", "a", "s", "a">>
casas  == <<"c", "a", "s", "a", "s">>
casass == <<"c", "a", "s", "a", "s", "s">>
long1  == Chars("a", 13)
long2  == Chars("a", 11) \o <<"b", "b">>

Vocabulary == {<<>>, ca, cas, casa, casas, casass, long1, long2}

\* fuzz.ratio on the lemmas of the model, computed once
RatioTable == [a \in Vocabulary |-> [b \in Vocabulary |-> FuzzRatio(a, b)]]

Ratio(a, b) == RatioTable[a][b]

----------------------------------------------------------------------------
(* The body of create_bol                                                  *)

\* step = int(num_lemmas * 0.05)
Step(num_lemmas) == (num_lemmas * 5) \div 100

\* the first bound taken one too far: "<= 3" where the code has "< 3"
ThresholdOffByOne(current_lemma) ==
    IF Len(current_lemma) <= 3 THEN 88
    ELSE IF Len(current_lemma) <= 4 THEN 87
    ELSE IF Len(current_lemma) = 5 THEN 86
    ELSE 85

Threshold(current_lemma) ==
    IF Len(current_lemma) < 3 THEN 88
    ELSE IF Len(current_lemma) <= 4 THEN 87
    ELSE IF Len(current_lemma) = 5 THEN 86
    ELSE 85

\* distances = np.array([fuzz.ratio(current_lemma, lemma) for lemma in lemmas])
Distances(current_lemma, ls) == [i \in 1..Len(ls) |-> Ratio(current_lemma, ls[i])]

\* ">=" where the code has ">"
SimilarLemmasIdxAtLeast(distances, threshold) ==
    SelectSeq(Indices(distances), LAMBDA i : distances[i] >= threshold)

\* np.where(distances > threshold)[0]: the positions, ascending
SimilarLemmasIdx(distances, threshold) ==
    SelectSeq(Indices(distances), LAMBDA i : distances[i] > threshold)

\* arr[idx] for an index array idx
Take(arr, idx) == [k \in 1..Len(idx) |-> arr[idx[k]]]

\* np.delete(arr, idx[1:]): the first selected element is left in place
DeleteAllButFirst(arr, idx) ==
    Let(SelectSeq(Indices(arr), LAMBDA i : i \notin Range(Tail(idx))),
        LAMBDA kept : Take(arr, kept))

\* np.delete(arr, idx[0]): only the first selected element is deleted
DeleteFirstOnly(arr, idx) ==
    Let(SelectSeq(Indices(arr), LAMBDA i : i # idx[1]),
        LAMBDA kept : Take(arr, kept))

\* np.delete(arr, idx)
Delete(arr, idx) ==
    Let(SelectSeq(Indices(arr), LAMBDA i : i \notin Range(idx)),
        LAMBDA kept : Take(arr, kept))

\* "bow_name": similar_lemmas[-1] where the code has similar_lemmas[0]
BagDataNamedAfterLast(it, similar_lemmas, similarity, threshold) ==
    [k \in 1..Len(similar_lemmas) |->
        [index      |-> k - 1,
         bow_id     |-> it + 1,
         bow_name   |-> similar_lemmas[Len(similar_lemmas)],
         lemma      |-> similar_lemmas[k],
         similarity |-> similarity[k],
         threshold  |-> threshold]]

\* pd.DataFrame({...}): one row per selected lemma, row labels 0..k-1
BagData(it, similar_lemmas, similarity, threshold) ==
    [k \in 1..Len(similar_lemmas) |->
        [index      |-> k - 1,
         bow_id     |-> it + 1,
         bow_name   |-> similar_lemmas[1],
         lemma      |-> similar_lemmas[k],
         similarity |-> similarity[k],
         threshold  |-> threshold]]

\* np.round(100 - (len(lemmas) / num_lemmas * 100), 2), in hundredths of a percent
Progress(len, num_lemmas) == RoundHalfEven(10000 * (num_lemmas - len), num_lemmas)

\* bow_df.reset_index(drop = True): relabel the rows 0..n-1
ResetIndex(df) == [k \in 1..Len(df) |-> [df[k] EXCEPT !.index = k - 1]]

\* current_lemma = lemmas[0]
CurrentLemma(ls) == ls[1]

\* the except clause without its break: the loop goes on
ExceptWithoutBreak(t, e) ==
    [t EXCEPT !.raised = TRUE, !.stdout = Append(t.stdout, [error |-> e])]

\* except Exception as e: print(...); break
Except(t, e) ==
    [t EXCEPT !.pc = "break", !.raised = TRUE,
              !.stdout = Append(t.stdout, [error |-> e])]

\* One pass through the try block and its except clause.  s holds the locals
\* lemmas, bow_df, iterator, the lines printed, the position pc, and the
\* history of input positions.
TryBody(s, vb, num_lemmas) ==
    Let(CurrentLemma(s.lemmas), LAMBDA current_lemma :
    Let(Distances(current_lemma, s.lemmas), LAMBDA distances :
    Let(Threshold(current_lemma), LAMBDA threshold :
    Let(SimilarLemmasIdx(distances, threshold), LAMBDA similar_lemmas_idx :
    IF similar_lemmas_idx = <<>>
    THEN Except(s, "IndexError")                     \* similar_lemmas[0]
    ELSE
    Let(Take(s.lemmas, similar_lemmas_idx), LAMBDA similar_lemmas :
    Let(BagData(s.iterator, similar_lemmas,
                Take(distances, similar_lemmas_idx), threshold), LAMBDA bag_data :
    Let([s EXCEPT !.lemmas = Delete(s.lemmas, similar_lemmas_idx),
                  !.origin = Delete(s.origin, similar_lemmas_idx),
                  !.recorded = s.recorded \o Take(s.origin, similar_lemmas_idx),
                  !.bow_df = s.bow_df \o bag_data], LAMBDA deleted :
    IF vb /\ Step(num_lemmas) = 0
    THEN Except(deleted, "ZeroDivisionError")         \* iterator % step
    ELSE [deleted EXCEPT
            !.stdout = IF vb /\ s.iterator % Step(num_lemmas) = 0
                       THEN Append(deleted.stdout,
                                   [completed |-> Progress(Len(deleted.lemmas),
                                                           num_lemmas)])
                       ELSE deleted.stdout,
            !.iterator = s.iterator + 1])))))))

Locals(ls) ==
    [lemmas |-> ls, origin |-> Indices(ls), recorded |-> <<>>, bow_df |-> <<>>,
     iterator |-> 0,
     raised |-> FALSE, stdout |-> <<>>, pc |-> "while"]

RECURSIVE WhileLoop(_, _, _)
WhileLoop(s, vb, num_lemmas) ==
    IF s.pc = "while" /\ Len(s.lemmas) > 0
    THEN Let(TryBody(s, vb, num_lemmas), LAMBDA t : WhileLoop(t, vb, num_lemmas))
    ELSE s

\* the value of a whole call create_bol(ls, vb)
CreateBol(ls, vb) == ResetIndex(WhileLoop(Locals(ls), vb, Len(ls)).bow_df)

----------------------------------------------------------------------------
(* remove_repetitions: the two patterns it builds and re.sub on them       *)

Alphabet == {"a", "b", "|", "\\"}

\* the characters re.escape puts a backslash in front of
SpecialChars == {"(", ")", "[", "]", "{", "}", "?", "*", "+", "-", "|", "^", "$",
                 "\\", ".", "&", "~", "#", " "}

RECURSIVE ReEscape(_)
ReEscape(s) ==
    IF s = <<>> THEN <<>>
    ELSE Let(Tail(s), LAMBDA rest :
             (IF Head(s) \in SpecialChars THEN <<"\\", Head(s)>> ELSE <<Head(s)>>)
             \o ReEscape(rest))

RECURSIVE Join(_, _)
\* sep.join(parts)
Join(sep, parts) ==
    IF parts = <<>> THEN <<>>
    ELSE IF Len(parts) = 1 THEN parts[1]
    ELSE Let(Tail(parts), LAMBDA rest : parts[1] \o sep \o Join(sep, rest))

\* "|".join(re.escape(char) for char in exceptions)
ExceptionsPattern(exc) ==
    Let([i \in 1..Len(exc) |-> ReEscape(<<exc[i]>>)],
        LAMBDA escaped : Join(<<"|">>, escaped))

RECURSIVE Alternatives(_)
\* the characters the group (p) matches when p is an alternation of
\* single, possibly escaped, characters
Alternatives(p) ==
    IF p = <<>> THEN {}
    ELSE IF p[1] = "\\"
    THEN Let(SubSeq(p, 3, Len(p)), LAMBDA rest : {p[2]} \cup Alternatives(rest))
    ELSE Let(Tail(p), LAMBDA rest :
             IF p[1] = "|" THEN Alternatives(rest)
             ELSE {p[1]} \cup Alternatives(rest))

RECURSIVE ClassChars(_)
\* the characters listed by the body of a character class [...]
ClassChars(body) ==
    IF body = <<>> THEN {}
    ELSE IF body[1] = "\\"
    THEN Let(SubSeq(body, 3, Len(body)), LAMBDA rest : {body[2]} \cup ClassChars(rest))
    ELSE Let(Tail(body), LAMBDA rest : {body[1]} \cup ClassChars(rest))

\* last position of the run of equal characters that starts at i
RunEnd(text, i) ==
    CHOOSE j \in i..Len(text) :
        /\ \A k \in i..j : text[k] = text[i]
        /\ j = Len(text) \/ text[j + 1] # text[i]

RECURSIVE SubRuns(_, _, _, _)
\* re.sub(r'(G)\1+', repl, text) from position i on, where the group G matches
\* one character of the set group and repl is keep copies of \1
SubRuns(text, i, group, keep) ==
    IF i > Len(text) THEN <<>>
    ELSE Let(RunEnd(text, i), LAMBDA j :
             IF text[i] \in group /\ j > i
             THEN [k \in 1..keep |-> text[i]] \o SubRuns(text, j + 1, group, keep)
             ELSE <<text[i]>> \o SubRuns(text, i + 1, group, keep))

RemoveRepetitions(str, exc) ==
    IF exc = <<>>
    THEN SubRuns(str, 1, Alphabet \ {"\n"}, 1)
    ELSE Let(ExceptionsPattern(exc), LAMBDA exceptions_pattern :
         Let(SubRuns(str, 1, Alternatives(exceptions_pattern), 2), LAMBDA allowed :
         Let(ReEscape(exceptions_pattern), LAMBDA class :
             SubRuns(allowed, 1, Alphabet \ ClassChars(class), 1))))

----------------------------------------------------------------------------
(* Inputs                                                                  *)

Tile(base, n) == [i \in 1..n |-> base[((i - 1) % Len(base)) + 1]]

ShortInputs == SeqsUpTo(Vocabulary, MaxLemmas)

LongInputs ==
    {Tile(base, 20 * k) : base \in SeqsUpTo(Vocabulary, MaxBase) \ {<<>>},
                          k \in 1..MaxTiles}

----------------------------------------------------------------------------
(* The state machine                                                       *)

InitBol ==
    /\ call = "create_bol"
    /\ pc = "while"
    /\ input \in ShortInputs \cup LongInputs
    /\ verbose \in BOOLEAN
    /\ lemmas = input
    /\ origin = Indices(input)
    /\ recorded = <<>>
    /\ bow_df = <<>>
    /\ iterator = 0
    /\ raised = FALSE
    /\ stdout = <<>>
    /\ returned = <<>>
    /\ string = <<>>
    /\ exceptions = <<>>
    /\ result = <<>>

ExceptionChars == {"a", "|"}

InitRep ==
    /\ call = "remove_repetitions"
    /\ pc = "call"
    /\ string \in SeqsUpTo(Alphabet, MaxText)
    /\ exceptions \in SeqsUpTo(ExceptionChars, MaxExc)
    /\ result = <<>>
    /\ input = <<>>
    /\ verbose = FALSE
    /\ lemmas = <<>>
    /\ origin = <<>>
    /\ recorded = <<>>
    /\ bow_df = <<>>
    /\ iterator = 0
    /\ raised = FALSE
    /\ stdout = <<>>
    /\ returned = <<>>

Init == InitBol \/ InitRep

\* one iteration of "while len(lemmas) > 0"
Iteration ==
    /\ call = "create_bol"
    /\ pc = "while"
    /\ Len(lemmas) > 0
    /\ \E s \in {[lemmas |-> lemmas, origin |-> origin, recorded |-> recorded,
                   bow_df |-> bow_df, iterator |-> iterator, raised |-> raised,
                   stdout |-> stdout, pc |-> pc]} :
         \E t \in {TryBody(s, verbose, Len(input))} :
           /\ lemmas' = t.lemmas
           /\ origin' = t.origin
           /\ recorded' = t.recorded
           /\ bow_df' = t.bow_df
           /\ iterator' = t.iterator
           /\ raised' = t.raised
           /\ stdout' = t.stdout
           /\ pc' = t.pc
    /\ UNCHANGED <<call, input, verbose, returned, repVars>>

\* the loop has ended (condition false, or break): return bow_df.reset_index(drop = True)
Return ==
    /\ call = "create_bol"
    /\ \/ pc = "while" /\ Len(lemmas) = 0
       \/ pc = "break"
    /\ returned' = ResetIndex(bow_df)
    /\ pc' = "done"
    /\ UNCHANGED <<call, input, verbose, lemmas, origin, recorded, bow_df, iterator, raised,
                   stdout, repVars>>

\* a call of remove_repetitions(string, exceptions)
Repetitions ==
    /\ call = "remove_repetitions"
    /\ pc = "call"
    /\ \E r \in {RemoveRepetitions(string, exceptions)} : result' = r
    /\ pc' = "done"
    /\ UNCHANGED <<call, string, exceptions, bolVars>>

Next == Iteration \/ Return \/ Repetitions

Spec == Init /\ [][Next]_vars

\* the scheduling of a single synchronous call: it keeps running until it returns
FairSpec == Spec /\ WF_vars(Next)

----------------------------------------------------------------------------
(* Properties                                                              *)

BolDone == call = "create_bol" /\ pc = "done"

Lemmata(df) == [k \in 1..Len(df) |-> df[k].lemma]

BowIds(df) == {df[k].bow_id : k \in 1..Len(df)}

\* the rows of bag b, in their order in df
BagRows(df, b) == SelectSeq(df, LAMBDA r : r.bow_id = b)

\* the result of a call in which nothing fails
FailureFree(ls) == CreateBol(ls, FALSE)

IsPrefix(s, t) == Len(s) <= Len(t) /\ s = SubSeq(t, 1, Len(s))

\* C1: for a non-empty input and either value of verbose, the returned rows
\* assign every input position to exactly one row: as many rows as lemmas,
\* no position recorded twice, none left out, and each row's lemma is the
\* lemma at its position.
C1_EveryLemmaAssignedOnce ==
    (BolDone /\ Len(input) > 0) =>
        /\ Len(returned) = Len(input)
        /\ Len(recorded) = Len(returned)
        /\ Range(recorded) = 1..Len(input)
        /\ \A j, k \in 1..Len(recorded) : recorded[j] = recorded[k] => j = k
        /\ \A k \in 1..Len(returned) : returned[k].lemma = input[recorded[k]]

\* C2: the value returned with verbose = True equals the value returned with
\* verbose = False on the same input.
C2_VerboseDoesNotChangeResult ==
    BolDone => returned = CreateBol(input, ~verbose)

\* C3: once an iteration has failed, the loop runs no further iteration, and
\* the value returned is a prefix of the failure-free result made of whole
\* bags in their original order.
C3_PartialResultOnFailure ==
    (call = "create_bol" /\ raised) =>
        /\ pc \in {"break", "done"}
        /\ pc = "done" =>
             /\ IsPrefix(returned, FailureFree(input))
             /\ returned = SelectSeq(FailureFree(input),
                                     LAMBDA r : r.bow_id \in BowIds(returned))

C3_Witness ==
    /\ BolDone /\ raised
    /\ Len(returned) >= 2
    /\ Len(returned) < Len(FailureFree(input))

\* C4: every recorded similarity is the score of the row's lemma against the
\* bag's representative and is strictly greater than the bag's threshold, and
\* no lemma still in the working set scores above the threshold of a bag
\* already formed (a score equal to the threshold stays out).
C4_SelectionIsStrict ==
    call = "create_bol" =>
        \A r \in Range(bow_df) :
            /\ r.similarity = Ratio(r.bow_name, r.lemma)
            /\ r.similarity > r.threshold
            /\ \A l \in Range(lemmas) : Ratio(r.bow_name, l) <= r.threshold

C4_Witness ==
    /\ call = "create_bol" /\ ~raised
    /\ \E r \in Range(bow_df) : \E l \in Range(lemmas) :
          Ratio(r.bow_name, l) = r.threshold

\* C5: the rows an iteration adds all carry as bow_name the first element of
\* the working set the iteration started from, there is at least one of them,
\* and one of them records that representative itself with similarity 100.
C5_RepresentativeLeadsItsBag ==
    [][(call = "create_bol" /\ pc = "while" /\ Len(lemmas) > 0) =>
         /\ Len(bow_df') > Len(bow_df)
         /\ \A k \in (Len(bow_df) + 1)..Len(bow_df') :
               bow_df'[k].bow_name = lemmas[1]
         /\ \E k \in (Len(bow_df) + 1)..Len(bow_df') :
               /\ bow_df'[k].lemma = lemmas[1]
               /\ recorded'[k] = origin[1]
               /\ bow_df'[k].similarity = 100]_vars

C5_Witness ==
    /\ BolDone
    /\ \E j, k \in 1..Len(returned) :
          /\ returned[j].bow_id = 2 /\ returned[k].bow_id = 2
          /\ returned[j].lemma # returned[j].bow_name
          /\ returned[k].lemma = returned[k].bow_name

\* C6: the threshold of a row is 88, 87, 86 or 85 according to whether its
\* bow_name has fewer than 3, 3 or 4, exactly 5, or at least 6 characters;
\* so it is one of these four values and the rows of one bag agree on it.
C6_ThresholdByLength ==
    call = "create_bol" =>
        \A k \in 1..Len(bow_df) :
            LET n == Len(bow_df[k].bow_name)
                t == bow_df[k].threshold
            IN  /\ n < 3 => t = 88
                /\ n \in {3, 4} => t = 87
                /\ n = 5 => t = 86
                /\ n >= 6 => t = 85
                /\ t \in {85, 86, 87, 88}
                /\ \A j \in 1..Len(bow_df) :
                      bow_df[j].bow_id = bow_df[k].bow_id => bow_df[j].threshold = t

C6_Witness ==
    /\ BolDone
    /\ \E i, j, k \in 1..Len(returned) :
          /\ Len(returned[i].bow_name) = 2
          /\ Len(returned[j].bow_name) = 3
          /\ Len(returned[k].bow_name) >= 6

\* C7: clustering again just the lemmas of one returned bag, in their output
\* order, gives one bag that holds all of them, with either value of verbose.
C7_ReclusteringABagGivesOneBag ==
    BolDone =>
        \A b \in BowIds(returned) : \A vb \in BOOLEAN :
            LET again == CreateBol(Lemmata(BagRows(returned, b)), vb)
            IN  /\ BowIds(again) = {1}
                /\ Lemmata(again) = Lemmata(BagRows(returned, b))

\* a returned bag with two members that are not similar to each other
C7_Witness ==
    /\ BolDone
    /\ \E j, k \in 1..Len(returned) :
          /\ returned[j].bow_id = returned[k].bow_id
          /\ Ratio(returned[j].lemma, returned[k].lemma)
                <= Threshold(returned[j].lemma)

RECURSIVE Collapsed(_, _, _)
\* text from position i on, each run of two or more equal characters cut to
\* two characters if the character is in exc and to one otherwise
Collapsed(text, i, exc) ==
    IF i > Len(text) THEN <<>>
    ELSE IF RunEnd(text, i) = i
    THEN <<text[i]>> \o Collapsed(text, i + 1, exc)
    ELSE (IF text[i] \in Range(exc) THEN <<text[i], text[i]>> ELSE <<text[i]>>)
         \o Collapsed(text, RunEnd(text, i) + 1, exc)

\* C8: with a non-empty exceptions list, remove_repetitions returns the string
\* with every run of two or more equal characters cut to one character, or to
\* exactly two if the character is in exceptions, and nothing else changed.
C8_RunsCollapsed ==
    (call = "remove_repetitions" /\ pc = "done" /\ exceptions # <<>>) =>
        result = Collapsed(string, 1, exceptions)

\* C9: every call returns; each iteration takes at least the representative
\* out of the working set and puts nothing back, so the working set strictly
\* shrinks, and no more bags are formed than there are input lemmas.
C9_Terminates ==
    /\ <>(pc = "done")
    /\ [](Cardinality(BowIds(bow_df)) <= Len(input) /\ iterator <= Len(input))
    /\ [][(call = "create_bol" /\ pc = "while" /\ Len(lemmas) > 0) =>
            /\ Len(lemmas') < Len(lemmas)
            /\ origin[1] \notin Range(origin')
            /\ Range(origin') \subseteq Range(origin)
            /\ \A i \in 1..Len(lemmas') : lemmas'[i] = input[origin'[i]]]_vars

C9_Witness ==
    /\ BolDone /\ ~raised
    /\ lemmas = <<>>
    /\ Cardinality(BowIds(returned)) = Len(input)
    /\ Len(input) >= 3

\* C10: all occurrences of one string in the input are recorded with the same
\* bow_id, and every occurrence has a row of its own.
C10_DuplicatesShareABag ==
    BolDone =>
        \A p, q \in 1..Len(input) :
            /\ \E k \in 1..Len(recorded) : recorded[k] = p
            /\ input[p] = input[q] =>
                 \A j, k \in 1..Len(recorded) :
                     (recorded[j] = p /\ recorded[k] = q) =>
                         returned[j].bow_id = returned[k].bow_id

====
